---- MODULE Spec2Model ----
(***************************************************************************)
(* TrueRandom (truerandom.h): hardware random words (RDRAND / RNDR) and    *)
(* the bounded-retry buffer fill built on them.                            *)
(*                                                                         *)
(* A 64-bit word is a tuple of four 16-bit limbs, least significant limb   *)
(* first: <<l0, l1, l2, l3>> stands for l0 + l1*2^16 + l2*2^32 + l3*2^48.  *)
(* A 32-bit word is a tuple of two such limbs.                             *)
(***************************************************************************)
EXTENDS Integers, Sequences, FiniteSets, TLC

\* ------------------------------------------------------------------ bounds
\* Largest length a caller passes to truernd_fill.
MaxLen == 20
\* Bytes the caller's buffer has beyond the largest requested length.
Slack == 2
\* Cap on the consecutive failed attempts explored (above every budget).
MaxFails == 12

\* Calls of truernd_is_supported whose answers are recorded.
MaxSupCalls == 2
ConcMaxLen == 9

\* --------------------------------------------------------------- constants
TRUERND_MAX_RETRIES == 10

\* Values of TRUERND_MAX_RETRIES a build may be configured with (-D override).
RetryConfigs == {0 - 1, 0, 1, 3, TRUERND_MAX_RETRIES}

\* The configuration of the runs with two threads inside truernd_fill.
ConcRetryConfigs == {3}
ConcArchs == {"x86"}

\* The configuration of the runs that call truernd_is_supported, which
\* never reads the budget.
SupportRetryConfigs == {1}

Archs == {"x86", "arm64", "arm32", "unknown"}

Threads == {1, 2}

NULL == "NULL"
VALID == "valid"
Pointers == {NULL, VALID}

\* 0x0000000000000000, 0x0807060504030201, 0xFFEEDDCCBBAA9988
HwWords == { <<0, 0, 0, 0>>,
             <<513, 1027, 1541, 2055>>,
             <<39304, 48042, 56780, 65518>> }

\* CPUID leaf 1 ECX values (two limbs): 0x40000000 (only bit 30),
\* 0xBFFFFFFF (every bit but bit 30).
EcxValues == { <<0, 16384>>, <<65535, 49151>> }

\* ID_AA64ISAR0_EL1 values: RNDR field (bits 63:60) = 1 alone,
\* every bit set but the RNDR field.
Isar0Values == { <<0, 0, 0, 4096>>, <<65535, 65535, 65535, 4095>> }

\* The CPUs a build for architecture a may run on: the highest basic CPUID
\* leaf and leaf 1 ECX on x86, ID_AA64ISAR0_EL1 on ARM64.
CpusOf(a) ==
  CASE a = "x86" ->
         {[maxLeaf |-> 0, ecx |-> <<0, 0>>, isar0 |-> <<0, 0, 0, 0>>]}
         \cup {[maxLeaf |-> 1, ecx |-> e, isar0 |-> <<0, 0, 0, 0>>] :
                 e \in EcxValues}
    [] a = "arm64" ->
         {[maxLeaf |-> 0, ecx |-> <<0, 0>>, isar0 |-> i] : i \in Isar0Values}
    [] OTHER -> {[maxLeaf |-> 0, ecx |-> <<0, 0>>, isar0 |-> <<0, 0, 0, 0>>]}

\* What the hardware instruction answers on one execution.
HwOutcomes == [ok : BOOLEAN, value : HwWords]

\* Content of caller memory before a call (memset(buffer, 0, ...)).
BufCap == MaxLen + Slack
ZeroMem == [k \in 0 .. BufCap - 1 |-> 0]
\* Content of the caller's output variable before a single-word call.
OutInit == <<42405, 42405, 42405, 42405>>
\* A local uint64_t that was declared and not yet assigned.
Uninit == <<>>

VARIABLES
  arch,        \* architecture the library was compiled for
  maxRetries,  \* configured TRUERND_MAX_RETRIES
  pc,          \* per thread: position of the caller / of truernd_fill
  op,          \* per thread: the entry point being called
  bufArg,      \* truernd_fill: buf argument (NULL or VALID)
  lenArg,      \* truernd_fill: len argument as passed
  len,         \* truernd_fill: remaining len
  ptr,         \* truernd_fill: write cursor, offset from buf
  retries,     \* truernd_fill: retries counter of the current chunk
  val,         \* truernd_fill: val of the current chunk
  ret,         \* return value of the int-returning entry points
  genval,      \* return value of truernd_gen32 / truernd_gen64
  mem,         \* per thread: the caller's buffer
  outArg,      \* truernd_get32/64: out argument (NULL or VALID)
  outcell,     \* per thread: the caller's output variable
  written,     \* history: offsets of mem written by the call
  outStored,   \* history: the call stored to *out
  words,       \* history: words truernd_get64 returned with success, in order
  fails,       \* history: consecutive failed attempts since the last success
  earlierFailed, \* history: an earlier chunk of this call saw a failed attempt
  attempts,    \* history: truernd_get64 calls made by this truernd_fill call
  hwIssued,    \* history: hardware instructions executed by the last call
  hwLast,      \* history: what the hardware answered (would answer) last
  cpu,         \* the running CPU's identification registers
  supSeen      \* history: the answers truernd_is_supported gave, in order

config == <<arch, maxRetries, cpu>>
fillLocals == <<len, ptr, retries, val>>
fillArgs == <<bufArg, lenArg>>
getState == <<outArg, outcell, outStored, genval>>
fillHist == <<written, words, fails, earlierFailed, attempts>>
vars == <<arch, maxRetries, pc, op, bufArg, lenArg, len, ptr, retries, val,
          ret, genval, mem, outArg, outcell, written, outStored, words,
          fails, earlierFailed, attempts, hwIssued, hwLast, cpu, supSeen>>

\* ------------------------------------------------------- word arithmetic
Limb(w, j) == IF j >= 1 /\ j <= Len(w) THEN w[j] ELSE 0

\* val >> n on a uint64_t, for n a multiple of 8 in 0 .. 56.
ShiftRight64(w, n) ==
  LET q == n \div 16
      r == n % 16
  IN  [j \in 1 .. 4 |->
         (Limb(w, j + q) \div (2 ^ r))
         + (Limb(w, j + q + 1) % (2 ^ r)) * (2 ^ (16 - r))]

\* (uint8_t) x
ToUint8(w) == w[1] % 256

\* (uint32_t) x: the low half of a 64-bit register
Low32(w) == <<w[1], w[2]>>

Zero32 == <<0, 0>>
Zero64 == <<0, 0, 0, 0>>

\* Mutant: most significant byte first, (uint8_t)(val >> ((7 - i) * 8)).
ExtractByte_BigEndian(w, i) == ToUint8(ShiftRight64(w, (7 - i) * 8))

\* (uint8_t)(val >> (i * 8))
ExtractByte(w, i) == ToUint8(ShiftRight64(w, i * 8))

\* ------------------------------------------------ hardware instructions
\* rdrand: carry flag set on success.
RDRAND(hw) == [cf |-> hw.ok, reg |-> hw.value]
\* mrs RNDR: NZCV.Z set on failure.
RNDR(hw) == [z |-> ~hw.ok, reg |-> hw.value]

\* ------------------------------------------- single-word entry points
\* Each returns what the call does: its return value, whether it stores to
\* *out and what, and how many hardware instructions it executed.
GetResult(r, s, v, n) == [ret |-> r, store |-> s, value |-> v, issued |-> n]
GenResult(v, n) == [value |-> v, issued |-> n]

truernd_gen32_x86(hw) ==
  LET i == RDRAND(hw)
  IN  IF ~i.cf THEN GenResult(Zero32, 1) ELSE GenResult(Low32(i.reg), 1)

\* Mutant: the failure path returns the register without zeroing it.
truernd_gen64_x86_NoZero(hw) ==
  LET i == RDRAND(hw)
  IN  GenResult(i.reg, 1)

truernd_gen64_x86(hw) ==
  LET i == RDRAND(hw)
  IN  IF ~i.cf THEN GenResult(Zero64, 1) ELSE GenResult(i.reg, 1)

truernd_get32_x86(out, hw) ==
  IF out = NULL THEN GetResult(0 - 1, FALSE, Zero32, 0)
  ELSE LET i == RDRAND(hw)
       IN  IF ~i.cf THEN GetResult(0 - 1, FALSE, Zero32, 1)
           ELSE GetResult(0, TRUE, Low32(i.reg), 1)

\* Mutant: the carry flag is not tested; a failed rdrand is stored and
\* reported as success.
truernd_get64_x86_FlagIgnored(out, hw) ==
  IF out = NULL THEN GetResult(0 - 1, FALSE, Zero64, 0)
  ELSE LET i == RDRAND(hw)
       IN  GetResult(0, TRUE, i.reg, 1)

\* Mutant: no test of the pointer before the store.
truernd_get64_x86_NoNullCheck(out, hw) ==
  LET i == RDRAND(hw)
  IN  IF ~i.cf THEN GetResult(0 - 1, FALSE, Zero64, 1)
      ELSE GetResult(0, TRUE, i.reg, 1)

\* Mutant: a failed rdrand is executed once more inside the call.
truernd_get64_x86_Retrying(out, hw) ==
  IF out = NULL THEN GetResult(0 - 1, FALSE, Zero64, 0)
  ELSE LET i == RDRAND(hw)
       IN  IF ~i.cf THEN GetResult(0 - 1, FALSE, Zero64, 2)
           ELSE GetResult(0, TRUE, i.reg, 1)

truernd_get64_x86(out, hw) ==
  IF out = NULL THEN GetResult(0 - 1, FALSE, Zero64, 0)
  ELSE LET i == RDRAND(hw)
       IN  IF ~i.cf THEN GetResult(0 - 1, FALSE, Zero64, 1)
           ELSE GetResult(0, TRUE, i.reg, 1)

truernd_get32_arm64(out, hw) ==
  IF out = NULL THEN GetResult(0 - 1, FALSE, Zero32, 0)
  ELSE LET i == RNDR(hw)
       IN  IF i.z THEN GetResult(0 - 1, FALSE, Zero32, 1)
           ELSE GetResult(0, TRUE, Low32(i.reg), 1)

\* Mutant: b.ne instead of b.eq, the flag read the wrong way round.
truernd_get64_arm64_Inverted(out, hw) ==
  IF out = NULL THEN GetResult(0 - 1, FALSE, Zero64, 0)
  ELSE LET i == RNDR(hw)
       IN  IF ~i.z THEN GetResult(0 - 1, FALSE, Zero64, 1)
           ELSE GetResult(0, TRUE, i.reg, 1)

truernd_get64_arm64(out, hw) ==
  IF out = NULL THEN GetResult(0 - 1, FALSE, Zero64, 0)
  ELSE LET i == RNDR(hw)
       IN  IF i.z THEN GetResult(0 - 1, FALSE, Zero64, 1)
           ELSE GetResult(0, TRUE, i.reg, 1)

truernd_gen32_arm64(hw) ==
  LET i == RNDR(hw)
  IN  IF i.z THEN GenResult(Zero32, 1) ELSE GenResult(Low32(i.reg), 1)

truernd_gen64_arm64(hw) ==
  LET i == RNDR(hw)
  IN  IF i.z THEN GenResult(Zero64, 1) ELSE GenResult(i.reg, 1)

\* 32-bit ARM and unrecognised architectures: no instruction exists.
truernd_get32_arm32(out, hw) == GetResult(0 - 1, FALSE, Zero32, 0)
truernd_get64_arm32(out, hw) == GetResult(0 - 1, FALSE, Zero64, 0)
truernd_gen32_arm32(hw) == GenResult(Zero32, 0)
\* Mutant: mov r1, #0 is missing, the high word of the result is whatever
\* r1 holds.
truernd_gen64_arm32_NoHigh(hw) ==
  GenResult(<<0, 0, hw.value[3], hw.value[4]>>, 0)

truernd_gen64_arm32(hw) == GenResult(Zero64, 0)

truernd_get32_unknown(out, hw) == GetResult(0 - 1, FALSE, Zero32, 0)
truernd_get64_unknown(out, hw) == GetResult(0 - 1, FALSE, Zero64, 0)
truernd_gen32_unknown(hw) == GenResult(Zero32, 0)
truernd_gen64_unknown(hw) == GenResult(Zero64, 0)

\* The implementation the preprocessor selects.
truernd_get32(a, out, hw) ==
  CASE a = "x86" -> truernd_get32_x86(out, hw)
    [] a = "arm64" -> truernd_get32_arm64(out, hw)
    [] a = "arm32" -> truernd_get32_arm32(out, hw)
    [] OTHER -> truernd_get32_unknown(out, hw)

truernd_get64(a, out, hw) ==
  CASE a = "x86" -> truernd_get64_x86(out, hw)
    [] a = "arm64" -> truernd_get64_arm64(out, hw)
    [] a = "arm32" -> truernd_get64_arm32(out, hw)
    [] OTHER -> truernd_get64_unknown(out, hw)

truernd_gen32(a, hw) ==
  CASE a = "x86" -> truernd_gen32_x86(hw)
    [] a = "arm64" -> truernd_gen32_arm64(hw)
    [] a = "arm32" -> truernd_gen32_arm32(hw)
    [] OTHER -> truernd_gen32_unknown(hw)

truernd_gen64(a, hw) ==
  CASE a = "x86" -> truernd_gen64_x86(hw)
    [] a = "arm64" -> truernd_gen64_arm64(hw)
    [] a = "arm32" -> truernd_gen64_arm32(hw)
    [] OTHER -> truernd_gen64_unknown(hw)

\* ----------------------------------------------------- truernd_is_supported
\* __get_cpuid(1, ...): 0 when leaf 1 does not exist, the outputs untouched.
GetCpuidOk(c) == c.maxLeaf >= 1

\* (x & (1 << 30)) != 0 on a 32-bit value
Bit30(x) == IF (x[2] \div 16384) % 2 = 1 THEN 1 ELSE 0

\* lsr x0, x0, #60; and x0, x0, #0xF; cmp x0, #0; cset w0, ne
RndrField(x) == IF (x[4] \div 4096) % 16 # 0 THEN 1 ELSE 0

\* Mutant: the result of __get_cpuid is not tested, __ecx is read as is.
truernd_is_supported_x86_Unchecked(c, junk) ==
  Bit30(IF GetCpuidOk(c) THEN c.ecx ELSE junk)

\* junk: what the unassigned local __ecx happens to hold.
truernd_is_supported_x86(c, junk) ==
  IF ~GetCpuidOk(c) THEN 0 ELSE Bit30(c.ecx)

truernd_is_supported_arm64(c, junk) == RndrField(c.isar0)

truernd_is_supported_arm32(c, junk) == 0

truernd_is_supported_unknown(c, junk) == 0

truernd_is_supported(a, c, junk) ==
  CASE a = "x86" -> truernd_is_supported_x86(c, junk)
    [] a = "arm64" -> truernd_is_supported_arm64(c, junk)
    [] a = "arm32" -> truernd_is_supported_arm32(c, junk)
    [] OTHER -> truernd_is_supported_unknown(c, junk)

\* ------------------------------------------------------------ truernd_fill
\* Mutant: retries declared once outside the loops, never reset.
InitialRetries_Carried(prev) == prev

\* int retries = 0;
InitialRetries(prev) == 0

\* Mutant: while (truernd_get64(&val) != 0) { } with no budget test.
BudgetExhausted_Never(r, max) == FALSE

\* Mutant: retries++ >= TRUERND_MAX_RETRIES, the counter compared before
\* the increment.
BudgetExhausted_PostIncrement(r, max) == r - 1 >= max

\* Mutant: gives up two failures later, ++retries > TRUERND_MAX_RETRIES + 1.
BudgetExhausted_Late(r, max) == r > max + 1

\* ++retries >= TRUERND_MAX_RETRIES, r the incremented counter
BudgetExhausted(r, max) == r >= max

\* Mutant: while (len > 0), a full copy for a partial chunk.
HasFullChunk_Any(n) == n > 0

\* while (len >= 8)
HasFullChunk(n) == n >= 8

\* Mutant: the remaining bytes are dropped.
HasPartialChunk_Never(n) == FALSE

\* if (len > 0)
HasPartialChunk(n) == n > 0

\* Mutant: if (!buf) return -1; the length is not checked.
InvalidFillArgs_NoLen(b, n) == b = NULL

\* if (!buf || len == 0) return -1;
InvalidFillArgs(b, n) == b = NULL \/ n = 0

\* Mutant: buf[i] instead of *ptr++, every chunk lands at offset 0.
CopyBytes_NoAdvance(m, p, w, n) ==
  [k \in DOMAIN m |-> IF k < n THEN ExtractByte(w, k) ELSE m[k]]

\* for (i = 0; i < n; i++) *ptr++ = (uint8_t)(val >> (i * 8));
CopyBytes(m, p, w, n) ==
  [k \in DOMAIN m |->
     IF k >= p /\ k < p + n THEN ExtractByte(w, k - p) ELSE m[k]]

\* The value a read of val yields: indeterminate while val is unassigned.
ReadVal(v) == IF v = Uninit THEN HwWords ELSE {v}

Upd(f, t, v) == [f EXCEPT ![t] = v]

NoWord == [ok |-> FALSE, value |-> Zero64]

\* The CPUs of architecture a on which the caller may go on to the
\* generators: those truernd_is_supported answers 1 on (rdrand / mrs RNDR
\* is an undefined instruction elsewhere); the stubs run on any CPU.
SupportedCpus(a) ==
  IF a \in {"x86", "arm64"}
  THEN {c \in CpusOf(a) :
          \A junk \in EcxValues : truernd_is_supported(a, c, junk) = 1}
  ELSE CpusOf(a)

\* Everything but the build configuration and the CPU; the threads in
\* running exist, the others are never started.
InitCalls(running) ==
  /\ supSeen = <<>>
  /\ pc = [t \in Threads |-> IF t \in running THEN "idle" ELSE "off"]
  /\ op = [t \in Threads |-> "none"]
  /\ bufArg = [t \in Threads |-> NULL]
  /\ lenArg = [t \in Threads |-> 0]
  /\ len = [t \in Threads |-> 0]
  /\ ptr = [t \in Threads |-> 0]
  /\ retries = [t \in Threads |-> 0]
  /\ val = [t \in Threads |-> Uninit]
  /\ ret = [t \in Threads |-> 0]
  /\ genval = [t \in Threads |-> Zero64]
  /\ mem = [t \in Threads |-> ZeroMem]
  /\ outArg = [t \in Threads |-> NULL]
  /\ outcell = [t \in Threads |-> OutInit]
  /\ written = [t \in Threads |-> {}]
  /\ outStored = [t \in Threads |-> FALSE]
  /\ words = [t \in Threads |-> <<>>]
  /\ fails = [t \in Threads |-> 0]
  /\ earlierFailed = [t \in Threads |-> FALSE]
  /\ attempts = [t \in Threads |-> 0]
  /\ hwIssued = [t \in Threads |-> 0]
  /\ hwLast = [t \in Threads |-> NoWord]

Init ==
  /\ arch \in Archs
  /\ maxRetries \in RetryConfigs
  /\ cpu \in SupportedCpus(arch)
  /\ InitCalls({1})

\* The test driver up to its call of truernd_is_supported: any CPU of the
\* architecture, the retry budget of a low-retry build.
InitSupport ==
  /\ arch \in Archs
  /\ maxRetries \in SupportRetryConfigs
  /\ cpu \in CpusOf(arch)
  /\ InitCalls({1})

\* The caller: memset(buffer, 0, sizeof(buffer)); truernd_fill(buffer, n)
\* (or truernd_fill(NULL, n), truernd_fill(buf, 0)).
CallFill(t) ==
  /\ pc[t] = "idle"
  /\ \E b \in Pointers, n \in 0 .. MaxLen :
       /\ bufArg' = Upd(bufArg, t, b)
       /\ lenArg' = Upd(lenArg, t, n)
       /\ len' = Upd(len, t, n)
  /\ op' = Upd(op, t, "fill")
  /\ mem' = Upd(mem, t, ZeroMem)
  /\ pc' = Upd(pc, t, "fill_entry")
  /\ UNCHANGED <<config, supSeen, ptr, retries, val, ret, getState, fillHist,
                 hwIssued, hwLast>>

\* if (!buf || len == 0) return -1;  uint8_t *ptr = (uint8_t *)buf;
FillCheckArgs(t) ==
  /\ pc[t] = "fill_entry"
  /\ IF InvalidFillArgs(bufArg[t], len[t])
     THEN /\ ret' = Upd(ret, t, 0 - 1)
          /\ pc' = Upd(pc, t, "done")
          /\ UNCHANGED ptr
     ELSE /\ ptr' = Upd(ptr, t, 0)
          /\ pc' = Upd(pc, t, "fill_while")
          /\ UNCHANGED ret
  /\ UNCHANGED <<config, supSeen, op, fillArgs, len, retries, val, mem, getState,
                 fillHist, hwIssued, hwLast>>

\* while (len >= 8) { uint64_t val; int retries = 0; ...
FillWhile(t) ==
  /\ pc[t] = "fill_while"
  /\ IF HasFullChunk(len[t])
     THEN /\ val' = Upd(val, t, Uninit)
          /\ retries' = Upd(retries, t, InitialRetries(retries[t]))
          /\ pc' = Upd(pc, t, "full_get")
     ELSE /\ pc' = Upd(pc, t, "fill_rest")
          /\ UNCHANGED <<val, retries>>
  /\ UNCHANGED <<config, supSeen, op, fillArgs, len, ptr, ret, mem, getState,
                 fillHist, hwIssued, hwLast>>

\* Mutant: static int retries, one counter for every thread in the loop.
IncrRetries_Static(rs, t) == [u \in DOMAIN rs |-> rs[u] + 1]

\* ++retries on the automatic variable of thread t's call.
IncrRetries(rs, t) == [rs EXCEPT ![t] = rs[t] + 1]

\* One evaluation of
\*   while (truernd_get64(&val) != 0) { if (++retries >= MAX) return -1; }
\* at position here; the loop is left for position next.
FillAttempt(t, here, next) ==
  /\ pc[t] = here
  /\ fails[t] < MaxFails
  /\ \E hw \in HwOutcomes :
       LET r == truernd_get64(arch, VALID, hw)
       IN  /\ hwIssued' = Upd(hwIssued, t, r.issued)
           /\ hwLast' = Upd(hwLast, t, hw)
           /\ val' = Upd(val, t, IF r.store THEN r.value ELSE val[t])
           /\ attempts' = Upd(attempts, t, attempts[t] + 1)
           /\ IF r.ret # 0
              THEN /\ retries' = IncrRetries(retries, t)
                   /\ fails' = Upd(fails, t, fails[t] + 1)
                   /\ UNCHANGED <<words, earlierFailed>>
                   /\ IF BudgetExhausted(retries[t] + 1, maxRetries)
                      THEN /\ ret' = Upd(ret, t, 0 - 1)
                           /\ pc' = Upd(pc, t, "done")
                      ELSE UNCHANGED <<ret, pc>>
              ELSE /\ words' = Upd(words, t, Append(words[t], r.value))
                   /\ fails' = Upd(fails, t, 0)
                   /\ earlierFailed' =
                        Upd(earlierFailed, t, earlierFailed[t] \/ fails[t] > 0)
                   /\ pc' = Upd(pc, t, next)
                   /\ UNCHANGED <<retries, ret>>
  /\ UNCHANGED <<config, supSeen, op, fillArgs, len, ptr, mem, getState, written>>

FillGetFull(t) == FillAttempt(t, "full_get", "full_copy")

\* for (int i = 0; i < 8; i++) *ptr++ = (uint8_t)(val >> (i * 8));  len -= 8;
FillCopyFull(t) ==
  /\ pc[t] = "full_copy"
  /\ \E w \in ReadVal(val[t]) :
       mem' = Upd(mem, t, CopyBytes(mem[t], ptr[t], w, 8))
  /\ written' = Upd(written, t, written[t] \cup (ptr[t] .. ptr[t] + 7))
  /\ ptr' = Upd(ptr, t, ptr[t] + 8)
  /\ len' = Upd(len, t, len[t] - 8)
  /\ pc' = Upd(pc, t, "fill_while")
  /\ UNCHANGED <<config, supSeen, op, fillArgs, retries, val, ret, getState, words,
                 fails, earlierFailed, attempts, hwIssued, hwLast>>

\* if (len > 0) { uint64_t val; int retries = 0; ... } return 0;
FillRest(t) ==
  /\ pc[t] = "fill_rest"
  /\ IF HasPartialChunk(len[t])
     THEN /\ val' = Upd(val, t, Uninit)
          /\ retries' = Upd(retries, t, InitialRetries(retries[t]))
          /\ pc' = Upd(pc, t, "part_get")
          /\ UNCHANGED ret
     ELSE /\ ret' = Upd(ret, t, 0)
          /\ pc' = Upd(pc, t, "done")
          /\ UNCHANGED <<val, retries>>
  /\ UNCHANGED <<config, supSeen, op, fillArgs, len, ptr, mem, getState, fillHist,
                 hwIssued, hwLast>>

FillGetPart(t) == FillAttempt(t, "part_get", "part_copy")

\* for (size_t i = 0; i < len; i++) *ptr++ = (uint8_t)(val >> (i * 8));
\* return 0;
FillCopyPart(t) ==
  /\ pc[t] = "part_copy"
  /\ \E w \in ReadVal(val[t]) :
       mem' = Upd(mem, t, CopyBytes(mem[t], ptr[t], w, len[t]))
  /\ written' = Upd(written, t,
                    written[t] \cup (ptr[t] .. ptr[t] + len[t] - 1))
  /\ ptr' = Upd(ptr, t, ptr[t] + len[t])
  /\ ret' = Upd(ret, t, 0)
  /\ pc' = Upd(pc, t, "done")
  /\ UNCHANGED <<config, supSeen, op, fillArgs, len, retries, val, getState, words,
                 fails, earlierFailed, attempts, hwIssued, hwLast>>

\* ------------------------------------------- calls of the word generators
\* truernd_get64(&value) / truernd_get64(NULL)
CallGet64(t) ==
  /\ pc[t] = "idle"
  /\ \E o \in Pointers, hw \in HwOutcomes :
       LET r == truernd_get64(arch, o, hw)
       IN  /\ outArg' = Upd(outArg, t, o)
           /\ outcell' = Upd(outcell, t,
                             IF r.store THEN r.value ELSE outcell[t])
           /\ outStored' = Upd(outStored, t, r.store)
           /\ ret' = Upd(ret, t, r.ret)
           /\ hwIssued' = Upd(hwIssued, t, r.issued)
           /\ hwLast' = Upd(hwLast, t, hw)
  /\ op' = Upd(op, t, "get64")
  /\ pc' = Upd(pc, t, "done")
  /\ UNCHANGED <<config, supSeen, fillArgs, fillLocals, genval, mem, fillHist>>

\* truernd_get32(&value) / truernd_get32(NULL); the variable is a uint32_t
CallGet32(t) ==
  /\ pc[t] = "idle"
  /\ \E o \in Pointers, hw \in HwOutcomes :
       LET r == truernd_get32(arch, o, hw)
       IN  /\ outArg' = Upd(outArg, t, o)
           /\ outcell' = Upd(outcell, t,
                             IF r.store THEN r.value ELSE Low32(outcell[t]))
           /\ outStored' = Upd(outStored, t, r.store)
           /\ ret' = Upd(ret, t, r.ret)
           /\ hwIssued' = Upd(hwIssued, t, r.issued)
           /\ hwLast' = Upd(hwLast, t, hw)
  /\ op' = Upd(op, t, "get32")
  /\ pc' = Upd(pc, t, "done")
  /\ UNCHANGED <<config, supSeen, fillArgs, fillLocals, genval, mem, fillHist>>

\* uint32_t val = truernd_gen32();
CallGen32(t) ==
  /\ pc[t] = "idle"
  /\ \E hw \in HwOutcomes :
       LET r == truernd_gen32(arch, hw)
       IN  /\ genval' = Upd(genval, t, r.value)
           /\ hwIssued' = Upd(hwIssued, t, r.issued)
           /\ hwLast' = Upd(hwLast, t, hw)
  /\ op' = Upd(op, t, "gen32")
  /\ pc' = Upd(pc, t, "done")
  /\ UNCHANGED <<config, supSeen, fillArgs, fillLocals, ret, mem, outArg, outcell,
                 outStored, fillHist>>

\* uint64_t val = truernd_gen64();
CallGen64(t) ==
  /\ pc[t] = "idle"
  /\ \E hw \in HwOutcomes :
       LET r == truernd_gen64(arch, hw)
       IN  /\ genval' = Upd(genval, t, r.value)
           /\ hwIssued' = Upd(hwIssued, t, r.issued)
           /\ hwLast' = Upd(hwLast, t, hw)
  /\ op' = Upd(op, t, "gen64")
  /\ pc' = Upd(pc, t, "done")
  /\ UNCHANGED <<config, supSeen, fillArgs, fillLocals, ret, mem, outArg, outcell,
                 outStored, fillHist>>

\* int supported = truernd_is_supported();
CallIsSupported(t) ==
  /\ pc[t] = "idle"
  /\ Len(supSeen) < MaxSupCalls
  /\ \E junk \in EcxValues :
       LET r == truernd_is_supported(arch, cpu, junk)
       IN  /\ ret' = Upd(ret, t, r)
           /\ supSeen' = Append(supSeen, r)
  /\ op' = Upd(op, t, "is_supported")
  /\ pc' = Upd(pc, t, "done")
  /\ UNCHANGED <<config, fillArgs, fillLocals, mem, getState, fillHist,
                 hwIssued, hwLast>>

\* The calling test function returns; its locals (buffer, values) die.
Return(t) ==
  /\ pc[t] = "done"
  /\ pc' = Upd(pc, t, "idle")
  /\ op' = Upd(op, t, "none")
  /\ bufArg' = Upd(bufArg, t, NULL)
  /\ lenArg' = Upd(lenArg, t, 0)
  /\ len' = Upd(len, t, 0)
  /\ ptr' = Upd(ptr, t, 0)
  /\ retries' = Upd(retries, t, 0)
  /\ val' = Upd(val, t, Uninit)
  /\ ret' = Upd(ret, t, 0)
  /\ genval' = Upd(genval, t, Zero64)
  /\ mem' = Upd(mem, t, ZeroMem)
  /\ outArg' = Upd(outArg, t, NULL)
  /\ outcell' = Upd(outcell, t, OutInit)
  /\ written' = Upd(written, t, {})
  /\ outStored' = Upd(outStored, t, FALSE)
  /\ words' = Upd(words, t, <<>>)
  /\ fails' = Upd(fails, t, 0)
  /\ earlierFailed' = Upd(earlierFailed, t, FALSE)
  /\ attempts' = Upd(attempts, t, 0)
  /\ hwIssued' = Upd(hwIssued, t, 0)
  /\ hwLast' = Upd(hwLast, t, NoWord)
  /\ UNCHANGED <<config, supSeen>>

Next ==
  \E t \in Threads :
    \/ CallFill(t)
    \/ FillCheckArgs(t)
    \/ FillWhile(t)
    \/ FillGetFull(t)
    \/ FillCopyFull(t)
    \/ FillRest(t)
    \/ FillGetPart(t)
    \/ FillCopyPart(t)
    \/ CallGet64(t)
    \/ CallGet32(t)
    \/ CallGen32(t)
    \/ CallGen64(t)
    \/ Return(t)

Spec == Init /\ [][Next]_vars

\* Two threads of one process, each with a buffer of its own.
InitConc ==
  /\ arch \in ConcArchs
  /\ maxRetries \in ConcRetryConfigs
  /\ cpu \in SupportedCpus(arch)
  /\ InitCalls(Threads)

\* memset(buffer, 0, sizeof(buffer)); truernd_fill(buffer, n) in a thread.
CallFillConc(t) ==
  /\ pc[t] = "idle"
  /\ \E b \in Pointers, n \in 0 .. ConcMaxLen :
       /\ bufArg' = Upd(bufArg, t, b)
       /\ lenArg' = Upd(lenArg, t, n)
       /\ len' = Upd(len, t, n)
  /\ op' = Upd(op, t, "fill")
  /\ mem' = Upd(mem, t, ZeroMem)
  /\ pc' = Upd(pc, t, "fill_entry")
  /\ UNCHANGED <<config, supSeen, ptr, retries, val, ret, getState, fillHist,
                 hwIssued, hwLast>>

\* Any interleaving of the steps of the threads' truernd_fill calls.
NextConc ==
  \E t \in Threads :
    \/ CallFillConc(t)
    \/ FillCheckArgs(t)
    \/ FillWhile(t)
    \/ FillGetFull(t)
    \/ FillCopyFull(t)
    \/ FillRest(t)
    \/ FillGetPart(t)
    \/ FillCopyPart(t)
    \/ Return(t)

SpecConc == InitConc /\ [][NextConc]_vars

\* The same calls with truernd_is_supported among them, on every CPU.
NextSupport ==
  \/ Next
  \/ \E t \in Threads : CallIsSupported(t)

SpecSupport == InitSupport /\ [][NextSupport]_vars

TypeOK ==
  /\ arch \in Archs
  /\ maxRetries \in RetryConfigs
  /\ \A t \in Threads :
       /\ len[t] \in 0 .. MaxLen
       /\ ptr[t] \in 0 .. MaxLen
       /\ retries[t] \in 0 .. MaxFails
       /\ ret[t] \in {0 - 1, 0, 1}
       /\ \A k \in DOMAIN mem[t] : mem[t][k] \in 0 .. 255

\* ------------------------------------------------------------- properties
FillDone(t) == op[t] = "fill" /\ pc[t] = "done"
ValidFill(t) == op[t] = "fill" /\ bufArg[t] = VALID /\ lenArg[t] >= 1
InAttemptLoop(t) == pc[t] \in {"full_get", "part_get"}

\* No attempt of the call so far has failed.
NeverFailed(t) == ~earlierFailed[t] /\ fails[t] = 0

\* Byte i (0 .. 7) of a 64-bit word, counted from the least significant.
WordByte(w, i) == (w[(i \div 2) + 1] \div (IF i % 2 = 1 THEN 256 ELSE 1)) % 256

\* ceil(n / 8)
CeilDiv8(n) == (n + 7) \div 8

\* The retry budget is spent: the consecutive failures reached it.
Exhausted(t) == fails[t] >= 1 /\ fails[t] >= maxRetries

HwArchs == {"x86", "arm64"}
\* The hardware instruction was executed and signalled success.
HwSuccess(t) == arch \in HwArchs /\ hwLast[t].ok

\* C1: a truernd_fill call of length L >= 1 in which no truernd_get64
\* attempt failed returns 0 having written exactly the offsets 0 .. L-1, and
\* the byte at offset k is byte k mod 8 (least significant first) of the
\* (k div 8)-th word truernd_get64 returned during the call.
C1_FillLayout ==
  \A t \in Threads :
    (FillDone(t) /\ ValidFill(t) /\ NeverFailed(t)) =>
      /\ ret[t] = 0
      /\ written[t] = 0 .. lenArg[t] - 1
      /\ Len(words[t]) = CeilDiv8(lenArg[t])
      /\ \A k \in 0 .. lenArg[t] - 1 :
           mem[t][k] = WordByte(words[t][(k \div 8) + 1], k % 8)

\* A 20-byte fill without failures has finished; its third word is the
\* one with eight distinct bytes.
C1_Witness ==
  \E t \in Threads :
    /\ FillDone(t) /\ ValidFill(t) /\ NeverFailed(t)
    /\ lenArg[t] = 20
    /\ ret[t] = 0
    /\ words[t][1] = <<39304, 48042, 56780, 65518>>
    /\ words[t][3] = <<513, 1027, 1541, 2055>>
    /\ mem[t][19] = 4

\* C2: with the default budget, a truernd_fill call gives up only after
\* more than TRUERND_MAX_RETRIES consecutive failures in one chunk, so that
\* exactly TRUERND_MAX_RETRIES failures followed by a success are tolerated.
C2_BudgetFailuresTolerated ==
  \A t \in Threads :
    (FillDone(t) /\ ValidFill(t) /\ ret[t] = 0 - 1
       /\ maxRetries = TRUERND_MAX_RETRIES) =>
      fails[t] > maxRetries

\* C3: no chunk of a truernd_fill call survives RetryBudget + 1 consecutive
\* failed attempts: in every state in which a chunk (full or partial) has
\* seen that many, the call has returned -1.
C3_FailsPastBudget ==
  \A t \in Threads :
    (op[t] = "fill" /\ fails[t] >= 1 /\ fails[t] >= maxRetries + 1) =>
      (pc[t] = "done" /\ ret[t] = 0 - 1)

\* A call of length 12 gave up in its partial chunk after budget + 1
\* consecutive failures (the budget configured as 0).
C3_Witness ==
  \E t \in Threads :
    /\ FillDone(t) /\ ValidFill(t)
    /\ maxRetries >= 0
    /\ lenArg[t] = 12
    /\ ptr[t] = 8
    /\ fails[t] = maxRetries + 1
    /\ ret[t] = 0 - 1

\* C4: a finished call with valid arguments returned 0 exactly when it
\* wrote exactly the offsets 0 .. length-1, and returned -1 exactly when
\* the retry budget was exhausted in the chunk it was working on; a call
\* whose budget is exhausted has returned -1.
C4_SuccessIffFilled ==
  \A t \in Threads :
    /\ (FillDone(t) /\ ValidFill(t)) =>
         /\ ret[t] \in {0, 0 - 1}
         /\ (ret[t] = 0) <=> (written[t] = 0 .. lenArg[t] - 1)
         /\ (ret[t] = 0 - 1) <=> Exhausted(t)
    /\ (ValidFill(t) /\ Exhausted(t)) => (pc[t] = "done" /\ ret[t] = 0 - 1)

\* A call of length 12 was abandoned after its first chunk.
C4_Witness ==
  \E t \in Threads :
    /\ FillDone(t) /\ ValidFill(t)
    /\ lenArg[t] = 12
    /\ ret[t] = 0 - 1
    /\ Exhausted(t)
    /\ written[t] = 0 .. 7

\* C5: inside an attempt loop the retries counter equals the consecutive
\* failures of the current chunk only, whatever earlier chunks spent, and a
\* call gives up only when the current chunk alone has reached the budget.
C5_BudgetPerChunk ==
  \A t \in Threads :
    /\ (op[t] = "fill" /\ InAttemptLoop(t)) => retries[t] = fails[t]
    /\ (FillDone(t) /\ ValidFill(t) /\ ret[t] = 0 - 1) =>
         (retries[t] = fails[t] /\ fails[t] >= maxRetries)
    /\ (FillDone(t) /\ ValidFill(t) /\ ~Exhausted(t)) => ret[t] = 0

\* With the default budget: an earlier chunk saw failures, the last chunk
\* saw budget - 1 more before its word arrived, and the call succeeded.
C5_Witness ==
  \E t \in Threads :
    /\ FillDone(t) /\ ValidFill(t)
    /\ maxRetries = TRUERND_MAX_RETRIES
    /\ earlierFailed[t]
    /\ retries[t] = maxRetries - 1
    /\ Len(words[t]) = 3
    /\ ret[t] = 0

\* C6: truernd_fill with a null buffer or length 0 returns -1 as its first
\* step: no hardware instruction is executed, no word is obtained and no
\* byte of the destination is written.
C6_InvalidArgsFailFast ==
  \A t \in Threads :
    (op[t] = "fill" /\ (bufArg[t] = NULL \/ lenArg[t] = 0)) =>
      /\ pc[t] \in {"fill_entry", "done"}
      /\ pc[t] = "done" => ret[t] = 0 - 1
      /\ hwIssued[t] = 0
      /\ words[t] = <<>>
      /\ fails[t] = 0
      /\ written[t] = {}
      /\ mem[t] = ZeroMem

\* truernd_fill(buf, 0) has returned.
C6_Witness ==
  \E t \in Threads :
    FillDone(t) /\ bufArg[t] = VALID /\ lenArg[t] = 0 /\ ret[t] = 0 - 1

\* C7: truernd_get32 / truernd_get64 with a null out return -1 and store
\* nothing, also when the hardware would have answered with success.
C7_NullOutFails ==
  \A t \in Threads :
    (op[t] \in {"get32", "get64"} /\ pc[t] = "done" /\ outArg[t] = NULL) =>
      /\ ret[t] = 0 - 1
      /\ ~outStored[t]
      /\ outcell[t] \in {OutInit, <<OutInit[1], OutInit[2]>>}

\* truernd_get64(NULL) on x86 while the hardware had a word ready.
C7_Witness ==
  \E t \in Threads :
    /\ op[t] = "get64" /\ pc[t] = "done" /\ outArg[t] = NULL
    /\ arch = "x86"
    /\ hwLast[t].ok
    /\ ret[t] = 0 - 1

\* C8: with a non-null out, truernd_get32 / truernd_get64 return 0 and
\* store the generated value (its low 32 bits for get32) exactly when the
\* hardware instruction signalled success; otherwise they return -1 and
\* *out keeps its value.
C8_GetStoresOnSuccessOnly ==
  \A t \in Threads :
    (op[t] \in {"get32", "get64"} /\ pc[t] = "done" /\ outArg[t] = VALID) =>
      IF HwSuccess(t)
      THEN /\ ret[t] = 0
           /\ outStored[t]
           /\ outcell[t] = IF op[t] = "get64" THEN hwLast[t].value
                           ELSE <<hwLast[t].value[1], hwLast[t].value[2]>>
      ELSE /\ ret[t] = 0 - 1
           /\ ~outStored[t]
           /\ outcell[t] \in {OutInit, <<OutInit[1], OutInit[2]>>}

\* truernd_get64(&v) on ARM64 failed and left v alone.
C8_Witness ==
  \E t \in Threads :
    /\ op[t] = "get64" /\ pc[t] = "done" /\ outArg[t] = VALID
    /\ arch = "arm64"
    /\ ~hwLast[t].ok
    /\ ret[t] = 0 - 1
    /\ outcell[t] = OutInit

\* C9: a truernd_fill call never writes at an offset >= L, and a call that
\* returned 0 obtained exactly ceil(L / 8) words: L div 8 written in full and,
\* when L mod 8 # 0, one more of which the low L mod 8 bytes were written.
C9_WordsConsumed ==
  \A t \in Threads :
    /\ op[t] = "fill" => written[t] \subseteq 0 .. lenArg[t] - 1
    /\ op[t] = "fill" =>
         \A k \in DOMAIN mem[t] : k >= lenArg[t] => mem[t][k] = 0
    /\ (FillDone(t) /\ ValidFill(t) /\ ret[t] = 0) =>
         /\ Len(words[t]) = CeilDiv8(lenArg[t])
         /\ Len(words[t]) =
              (lenArg[t] \div 8) + (IF lenArg[t] % 8 # 0 THEN 1 ELSE 0)
         /\ ptr[t] = lenArg[t]

\* A 20-byte fill succeeded after failures: three words, bytes 16 .. 19 the
\* low four bytes of the third, nothing at offset 20.
C9_Witness ==
  \E t \in Threads :
    /\ FillDone(t) /\ ValidFill(t)
    /\ lenArg[t] = 20
    /\ ret[t] = 0
    /\ earlierFailed[t]
    /\ Len(words[t]) = 3
    /\ words[t][3] = <<39304, 48042, 56780, 65518>>
    /\ mem[t][16] = 136 /\ mem[t][19] = 187
    /\ mem[t][20] = 0

\* C10: a call of truernd_get32 / truernd_get64 / truernd_gen32 /
\* truernd_gen64 executes the hardware instruction at most once (exactly
\* once on x86 and ARM64 unless out is null), also when it fails; a retries
\* counter exists only inside truernd_fill.
C10_SingleAttempt ==
  \A t \in Threads :
    /\ hwIssued[t] \in {0, 1}
    /\ (op[t] \in {"get32", "get64", "gen32", "gen64"} /\ pc[t] = "done") =>
         /\ hwIssued[t] =
              IF arch \in HwArchs
                 /\ (op[t] \in {"gen32", "gen64"} \/ outArg[t] = VALID)
              THEN 1 ELSE 0
         /\ retries[t] = 0
    /\ retries[t] > 0 => op[t] = "fill"

\* truernd_get64(&v) on x86 failed after a single rdrand.
C10_Witness ==
  \E t \in Threads :
    /\ op[t] = "get64" /\ pc[t] = "done" /\ outArg[t] = VALID
    /\ arch = "x86"
    /\ ~hwLast[t].ok
    /\ hwIssued[t] = 1
    /\ ret[t] = 0 - 1

\* C11: truernd_gen32 / truernd_gen64 return the value the hardware
\* delivered (its low 32 bits for gen32) when the instruction signalled
\* success and the all-zero value otherwise, whatever the register held.
C11_GenZeroOnFailure ==
  \A t \in Threads :
    (op[t] \in {"gen32", "gen64"} /\ pc[t] = "done") =>
      genval[t] =
        IF op[t] = "gen64"
        THEN (IF HwSuccess(t) THEN hwLast[t].value ELSE <<0, 0, 0, 0>>)
        ELSE (IF HwSuccess(t)
              THEN <<hwLast[t].value[1], hwLast[t].value[2]>>
              ELSE <<0, 0>>)

\* truernd_gen64() on x86 returned 0 although the instruction succeeded: a
\* genuine zero, the same return value as a failure gives.
C11_Witness ==
  \E t \in Threads :
    /\ op[t] = "gen64" /\ pc[t] = "done"
    /\ arch = "x86"
    /\ hwLast[t].ok
    /\ hwLast[t].value = <<0, 0, 0, 0>>
    /\ genval[t] = <<0, 0, 0, 0>>

\* C12: on a platform without the instruction (32-bit ARM, unrecognised
\* architecture) truernd_fill reports failure after a single failed
\* truernd_get64 attempt, without repeating it.
C12_UnsupportedFailsFast ==
  \A t \in Threads :
    (op[t] = "fill" /\ arch \in {"arm32", "unknown"}) => fails[t] <= 1

\* C13: every call of truernd_is_supported in a process run returns the
\* same answer, 0 or 1, whatever was called in between, and the call
\* changes nothing but its caller's return value.
C13_SameAnswer ==
  /\ \A i, j \in 1 .. Len(supSeen) : supSeen[i] = supSeen[j]
  /\ \A i \in 1 .. Len(supSeen) : supSeen[i] \in {0, 1}
  /\ \A t \in Threads :
       (op[t] = "is_supported" /\ pc[t] = "done") =>
         ret[t] = supSeen[Len(supSeen)]

C13_NoSideEffect ==
  \A t \in Threads :
    (pc[t] = "idle" /\ op'[t] = "is_supported") =>
      /\ UNCHANGED <<arch, maxRetries, cpu, bufArg, lenArg, len, ptr,
                     retries, val, genval, mem, outArg, outcell, written,
                     outStored, words, fails, earlierFailed, attempts,
                     hwIssued, hwLast>>
      /\ \A u \in Threads \ {t} :
           pc'[u] = pc[u] /\ op'[u] = op[u] /\ ret'[u] = ret[u]

C13_SupportIdempotent == [](C13_SameAnswer) /\ [][C13_NoSideEffect]_vars

\* The second call answered 1 like the first, on an x86 CPU with RDRAND.
C13_Witness ==
  \E t \in Threads :
    /\ op[t] = "is_supported" /\ pc[t] = "done"
    /\ arch = "x86"
    /\ supSeen = <<1, 1>>
    /\ ret[t] = 1

\* C14: on 32-bit ARM and on an unrecognised architecture
\* truernd_is_supported returns 0, truernd_get32 / truernd_get64 return -1
\* and store nothing, and truernd_gen32 / truernd_gen64 return 0, whatever
\* the arguments.
C14_UnsupportedStubs ==
  \A t \in Threads :
    (arch \in {"arm32", "unknown"} /\ pc[t] = "done") =>
      /\ op[t] = "is_supported" => ret[t] = 0
      /\ op[t] \in {"get32", "get64"} =>
           /\ ret[t] = 0 - 1
           /\ ~outStored[t]
           /\ outcell[t] \in {OutInit, <<OutInit[1], OutInit[2]>>}
      /\ op[t] = "gen32" => genval[t] = <<0, 0>>
      /\ op[t] = "gen64" => genval[t] = <<0, 0, 0, 0>>
      /\ hwIssued[t] = 0

\* truernd_gen64() returned 0 on 32-bit ARM.
C14_Witness ==
  \E t \in Threads :
    /\ arch = "arm32"
    /\ op[t] = "gen64" /\ pc[t] = "done"
    /\ genval[t] = <<0, 0, 0, 0>>

\* Everything that belongs to thread u: its call's arguments, locals,
\* buffer and result, with their history.
ThreadState(u) ==
  <<pc[u], op[u], bufArg[u], lenArg[u], len[u], ptr[u], retries[u], val[u],
    ret[u], genval[u], mem[u], outArg[u], outcell[u], written[u],
    outStored[u], words[u], fails[u], earlierFailed[u], attempts[u],
    hwIssued[u], hwLast[u]>>

\* The state of thread t's call is determined by the call's arguments and
\* the outcomes of its own attempts.
C15_OwnOutcome ==
  \A t \in Threads :
    op[t] = "fill" =>
      /\ InAttemptLoop(t) => retries[t] = fails[t]
      /\ attempts[t] >= Len(words[t]) + fails[t]
      /\ (bufArg[t] = VALID /\ pc[t] # "done") => ptr[t] + len[t] = lenArg[t]
      /\ written[t] = 0 .. ptr[t] - 1
      /\ \A k \in DOMAIN mem[t] :
           mem[t][k] = IF k < ptr[t]
                       THEN WordByte(words[t][(k \div 8) + 1], k % 8)
                       ELSE ZeroMem[k]
      /\ (FillDone(t) /\ ValidFill(t)) =>
           /\ ret[t] = 0 - 1 <=> fails[t] >= maxRetries
           /\ ret[t] = 0 <=> (fails[t] = 0 /\ ptr[t] = lenArg[t])
           /\ ret[t] = 0 => Len(words[t]) = CeilDiv8(lenArg[t])

\* A step is a step of one thread and leaves every other thread's state
\* and the configuration as they are.
C15_OwnStateOnly ==
  /\ UNCHANGED config
  /\ \E t \in Threads :
       \A u \in Threads \ {t} : ThreadState(u)' = ThreadState(u)

\* C15: concurrent truernd_fill calls on disjoint buffers do not interfere
\* under any interleaving: a step of one call changes nothing of another
\* call (retry counter, cursor, remaining length, buffer, result), and each
\* call's return value and bytes are those its own arguments and its own
\* truernd_get64 outcomes determine.
C15_NoInterference == [](C15_OwnOutcome) /\ [][C15_OwnStateOnly]_vars

\* Two calls in flight together ended differently: thread 1 filled 9 bytes
\* after a failed attempt, thread 2 gave up at its second chunk with other
\* bytes in its buffer.
C15_Witness ==
  /\ FillDone(1) /\ ValidFill(1) /\ FillDone(2) /\ ValidFill(2)
  /\ lenArg[1] = 9 /\ ret[1] = 0 /\ earlierFailed[1]
  /\ lenArg[2] = 9 /\ ret[2] = 0 - 1 /\ fails[2] = 3
  /\ mem[1][0] = 1 /\ mem[1][8] = 136
  /\ mem[2][0] = 136 /\ mem[2][8] = 0

\* The attempts the code makes per chunk before it gives up: the test
\* ++retries >= MAX follows the first attempt, so one is made for any MAX.
MaxAttempts(b) == IF b >= 1 THEN b ELSE 1

\* One step of thread t inside truernd_fill.
FillStep(t) ==
  \/ FillCheckArgs(t)
  \/ FillWhile(t)
  \/ FillGetFull(t)
  \/ FillCopyFull(t)
  \/ FillRest(t)
  \/ FillGetPart(t)
  \/ FillCopyPart(t)

\* An upper bound of the steps truernd_fill has left at position p with n
\* bytes remaining and f failed attempts in the current chunk.
FillMeasure(p, n, f) ==
  LET A == MaxAttempts(maxRetries)
      chunks == CeilDiv8(n) * (A + 3)
  IN  CASE p = "fill_entry" -> chunks + A + 4
        [] p = "fill_while" -> chunks + A + 3
        [] p = "fill_rest" -> chunks + A + 2
        [] p \in {"full_get", "part_get"} -> chunks + A - f + 1
        [] p \in {"full_copy", "part_copy"} -> chunks + 1
        [] OTHER -> 0

\* C16 as stated: at most RetryBudget attempts per chunk and
\* ceil(L/8) * RetryBudget attempts per call.
C16_AtMostBudgetAttempts ==
  \A t \in Threads :
    (op[t] = "fill" /\ attempts[t] >= 1) =>
      /\ fails[t] <= maxRetries
      /\ attempts[t] <= CeilDiv8(lenArg[t]) * maxRetries

C16_Bounded ==
  \A t \in Threads :
    op[t] = "fill" =>
      /\ fails[t] <= MaxAttempts(maxRetries)
      /\ attempts[t] <= Len(words[t]) * MaxAttempts(maxRetries) + fails[t]
      /\ attempts[t] <= CeilDiv8(lenArg[t]) * MaxAttempts(maxRetries)
      /\ FillMeasure(pc[t], len[t], fails[t]) >= 0
      /\ pc[t] # "done" => ENABLED FillStep(t)
      /\ pc[t] = "done" => ret[t] \in {0 - 1, 0}

C16_Decreases ==
  \A t \in Threads :
    (op[t] = "fill" /\ op'[t] = "fill") =>
      /\ <<pc[t], fails[t]>> # <<pc'[t], fails'[t]>> =>
           FillMeasure(pc'[t], len'[t], fails'[t])
             < FillMeasure(pc[t], len[t], fails[t])
      /\ attempts'[t] # attempts[t] =>
           /\ attempts'[t] = attempts[t] + 1
           /\ fails[t] + 1 <= MaxAttempts(maxRetries)

\* C16 (amended): truernd_fill terminates for every length and every
\* sequence of generator outcomes and returns 0 or -1: until it has
\* returned it can always take a step, and every step lowers a measure
\* that is never negative. It makes at most max(RetryBudget, 1)
\* truernd_get64 attempts per chunk and at most
\* ceil(L/8) * max(RetryBudget, 1) attempts in one call.
C16_TerminatesBounded == [](C16_Bounded) /\ [][C16_Decreases]_vars

\* Budget 3: a 20-byte call succeeded with every chunk's word obtained at
\* the third attempt, 9 = ceil(20/8) * 3 attempts.
C16_Witness ==
  \E t \in Threads :
    /\ maxRetries = 3
    /\ FillDone(t) /\ ValidFill(t)
    /\ lenArg[t] = 20
    /\ ret[t] = 0
    /\ attempts[t] = 9

\* C17: every byte truernd_fill has written is a byte of a word that a
\* successful truernd_get64 call delivered for its chunk, and a chunk's
\* bytes are written only once its word is there: while a chunk's word is
\* awaited nothing of the chunk is written, and the word copied is the one
\* the hardware delivered with its success signal.
C17_OnlySuccessfulWords ==
  \A t \in Threads :
    op[t] = "fill" =>
      /\ \A k \in written[t] :
           /\ (k \div 8) + 1 <= Len(words[t])
           /\ mem[t][k] = WordByte(words[t][(k \div 8) + 1], k % 8)
      /\ InAttemptLoop(t) =>
           /\ written[t] = 0 .. ptr[t] - 1
           /\ ptr[t] = 8 * Len(words[t])
      /\ pc[t] \in {"full_copy", "part_copy"} =>
           /\ val[t] # Uninit
           /\ HwSuccess(t)
           /\ val[t] = hwLast[t].value
           /\ val[t] = words[t][Len(words[t])]
           /\ written[t] = 0 .. ptr[t] - 1
           /\ ptr[t] = 8 * (Len(words[t]) - 1)

\* A call that gave up at its second chunk: the first chunk's bytes come
\* from a word obtained after failed attempts, the failed attempts of the
\* second chunk left no byte.
C17_Witness ==
  \E t \in Threads :
    /\ FillDone(t) /\ ValidFill(t)
    /\ ret[t] = 0 - 1
    /\ earlierFailed[t]
    /\ words[t] = << <<513, 1027, 1541, 2055>> >>
    /\ written[t] = 0 .. 7
    /\ mem[t][7] = 8
    /\ ~hwLast[t].ok
    /\ hwLast[t].value = <<39304, 48042, 56780, 65518>>

\* C18: when truernd_fill returns -1 for valid arguments after j words,
\* offsets 0 .. 8j-1 hold the bytes of those j words and every offset from
\* 8j on holds what it held before the call; nothing is rolled back.
C18_PartialFillKept ==
  \A t \in Threads :
    (FillDone(t) /\ ValidFill(t) /\ ret[t] = 0 - 1) =>
      LET j == Len(words[t])
      IN  /\ 8 * j < lenArg[t]
          /\ ptr[t] = 8 * j
          /\ written[t] = 0 .. 8 * j - 1
          /\ \A k \in DOMAIN mem[t] :
               mem[t][k] = IF k < 8 * j
                           THEN WordByte(words[t][(k \div 8) + 1], k % 8)
                           ELSE ZeroMem[k]

\* A 20-byte call gave up at chunk 2: 16 bytes of two words stay in the
\* buffer, offsets 16 .. 19 are untouched.
C18_Witness ==
  \E t \in Threads :
    /\ FillDone(t) /\ ValidFill(t)
    /\ lenArg[t] = 20
    /\ ret[t] = 0 - 1
    /\ Len(words[t]) = 2
    /\ mem[t][0] = 1 /\ mem[t][15] = 255
    /\ mem[t][16] = 0

\* C19: with TRUERND_MAX_RETRIES configured <= 1 (also 0 and negative) a
\* truernd_fill call makes exactly one truernd_get64 attempt per chunk: the
\* first attempt is always made, a first failure ends the call with -1, and
\* the call returns 0 when every chunk's first attempt succeeded.
C19_OneAttemptPerChunk ==
  \A t \in Threads :
    (maxRetries <= 1 /\ op[t] = "fill") =>
      /\ fails[t] <= 1
      /\ ~earlierFailed[t]
      /\ InAttemptLoop(t) => (fails[t] = 0 /\ retries[t] = 0)
      /\ fails[t] = 1 => (pc[t] = "done" /\ ret[t] = 0 - 1)
      /\ (FillDone(t) /\ ValidFill(t)) =>
           /\ Len(words[t]) + fails[t] >= 1
           /\ (ret[t] = 0) <=> (fails[t] = 0)
           /\ ret[t] = 0 => Len(words[t]) = CeilDiv8(lenArg[t])

\* Budget -1: a 20-byte call succeeded with one attempt for each of its
\* three chunks.
C19_Witness ==
  \E t \in Threads :
    /\ maxRetries < 0
    /\ FillDone(t) /\ ValidFill(t)
    /\ lenArg[t] = 20
    /\ ret[t] = 0
    /\ Len(words[t]) = 3
    /\ words[t][2] = <<513, 1027, 1541, 2055>>

====
